---------------------------- MODULE Spec2Model ----------------------------
(***************************************************************************)
(* Model of crates/editor/src/items.rs: the ItemView implementation of     *)
(* Editor (navigate, deactivated, can_save, save, can_save_as, save_as)    *)
(* and the status-bar aggregators CursorPosition and DiagnosticMessage.    *)
(*                                                                         *)
(* The sub-systems share the module and are explored by separate           *)
(* specifications, each leaving the other sub-systems' variables alone:    *)
(*   Spec        the save coordinator (save, user edits)                   *)
(*   SaveAsSpec  save_as next to one save invocation                       *)
(*   FairSpec    the save coordinator with a formatter that always fails   *)
(*   CapSpec     what the item reports it can do (can_save, can_save_as)   *)
(*   NavSpec     navigation markers (navigate, deactivated)                *)
(*   DiagSpec    the diagnostic picker (DiagnosticMessage::update)         *)
(*   StatusSpec  the aggregators and their subscriptions to the editors    *)
(* An edit of the buffer shows in the save coordinator as a new version    *)
(* and a history entry (Edit), and in navigation as a change of the text   *)
(* under the anchors (InsertChar, DeleteChar, ReplaceBuffer).              *)
(***************************************************************************)
EXTENDS Integers, Sequences, FiniteSets, TLC

(* ------------------------------ bounds -------------------------------- *)
MaxSaves == 2
\* documents of a composite buffer
MaxDocs == 2
\* cap on the buffer version (user edits and formatting edits)
MaxVersion == 1
\* characters of the text
MaxLen == 2
\* entries of the navigation history
MaxNav == 1
\* diagnostics of the buffer
MaxDiags == 2
\* largest offset of a diagnostic's range
MaxPos == 2
\* editor views open in the pane
MaxEditors == 2

VARIABLES
    \* --- buffer (MultiBuffer) ---
    is_singleton,     \* MultiBuffer::is_singleton
    history,          \* the buffer's transaction history (undo stack)
    version,          \* advances with every edit of the text
    saved_version,    \* version recorded by the last completed persistence
    \* --- one entry per save invocation ---
    save_pc,          \* position of the task spawned by Editor::save
    format_result,    \* the Task returned by project.format
    save_log,         \* calls made by the invocation, in program order
    persist_version,  \* version captured when buffer.save started
    persist_result,   \* the Task returned by buffer.save
    save_result,      \* the Result the save task resolved to
    \* --- save_as ---
    save_as_pc,
    save_as_result,
    panicked,
    \* --- navigation ---
    text,             \* the characters of the snapshot, as UTF-8 widths
    selection,        \* the newest selection, a pair of anchors
    nav_history,      \* entries pushed to the item's navigation history
    nav_attached,     \* Editor::nav_history is Some
    navigated,        \* argument of the navigate call just made, if any
    \* --- DiagnosticMessage ---
    diagnostics,      \* the buffer's diagnostic entries, in iteration order
    cursor_position,  \* offset of the head of the editor's newest selection
    diagnostic,       \* DiagnosticMessage::diagnostic
    notified,         \* the latest update called cx.notify()
    diag_fresh,       \* update has run since the editor last changed
    \* --- the buffer's file, and what the item reported to the workspace ---
    file,             \* the file the buffer is backed by, if any
    has_conflict,     \* the file changed on disk while the buffer was dirty
    can_save_result,     \* what the latest can_save call returned
    can_save_as_result,  \* what the latest can_save_as call returned
    \* --- editor views and the status-bar aggregators ---
    selections,       \* the local selections of every editor view
    cp_position,        \* CursorPosition::position
    cp_selected_count,  \* CursorPosition::selected_count
    cp_observe_active_editor,  \* live subscriptions held by CursorPosition
    dm_observe_active_editor,  \* live subscriptions held by DiagnosticMessage
    cp_active_pane_item,  \* item last passed to CursorPosition
    dm_active_pane_item,  \* item last passed to DiagnosticMessage
    status_call       \* the status-bar handler that ran last

saveVars == <<is_singleton, history, version, saved_version, save_pc,
              format_result, save_log, persist_version, persist_result,
              save_result, save_as_pc, save_as_result, panicked>>

navVars == <<text, selection, nav_history, nav_attached, navigated>>

diagVars == <<diagnostics, cursor_position, diagnostic, notified, diag_fresh>>

capVars == <<file, has_conflict, can_save_result, can_save_as_result>>

statusVars == <<selections, cp_position, cp_selected_count,
                cp_observe_active_editor, dm_observe_active_editor,
                cp_active_pane_item, dm_active_pane_item, status_call>>

vars == <<saveVars, navVars, diagVars, capVars, statusVars>>

SaveIds == 1..MaxSaves

\* buffer.read(cx).all_buffers(): one document for a singleton, N otherwise
all_buffers == IF is_singleton THEN {1} ELSE 1..MaxDocs

\* The Task<Result<ProjectTransaction>> of a formatting request.  A
\* ProjectTransaction maps each document the formatter edited to that
\* document's transaction; it is represented by the number of its entries.
Pending == [status |-> "pending", docs |-> 0]
Failed == [status |-> "failed", docs |-> 0]
Cancelled == [status |-> "cancelled", docs |-> 0]
Formatted(n) == [status |-> "ok", docs |-> n]

\* is_dirty of the buffer
is_dirty == saved_version # version


None == [some |-> FALSE, docs |-> 0]
Some(ds) == [some |-> TRUE, docs |-> ds]

\* Result::log_err: Ok(v) becomes Some(v); an error is logged and becomes None
log_err(r) == IF r.status = "ok" THEN Some(r.docs) ELSE None

(* ------------------------- the environment ---------------------------- *)

\* A user edit made through the editor: one transaction of the buffer.
Edit ==
    /\ ~panicked
    /\ version < MaxVersion
    /\ version' = version + 1
    /\ history' = Append(history, [kind |-> "edit", by |-> 0])
    /\ UNCHANGED <<navVars, diagVars, capVars, statusVars, is_singleton, saved_version, save_pc, format_result,
                   save_log, persist_version, persist_result, save_result,
                   save_as_pc, save_as_result, panicked>>

\* What a formatting request over the documents ds can resolve to.
FormatOutcomes(ds) ==
    {Failed, Cancelled} \cup
    {Formatted(n) : n \in IF version < MaxVersion THEN 0..Cardinality(ds) ELSE {0}}

\* project.format(buffers, true, cx) resolves.  The formatter has applied its
\* edits to the underlying documents and pushed them to the documents' own
\* histories; a singleton's document history is the buffer's history.
FormatResolveWith(i, outcomes) ==
    /\ ~panicked
    /\ save_pc[i] = "formatting"
    /\ format_result[i] = Pending
    /\ \E r \in outcomes :
        /\ format_result' = [format_result EXCEPT ![i] = r]
        /\ IF r.docs > 0
           THEN /\ version' = version + 1
                /\ history' = IF is_singleton
                              THEN Append(history, [kind |-> "format", by |-> i])
                              ELSE history
           ELSE UNCHANGED <<version, history>>
    /\ UNCHANGED <<navVars, diagVars, capVars, statusVars, is_singleton, saved_version, save_pc, save_log,
                   persist_version, persist_result, save_result,
                   save_as_pc, save_as_result, panicked>>

FormatResolve(i) == FormatResolveWith(i, FormatOutcomes(all_buffers))

\* The Task returned by buffer.save(cx) resolves; on success the buffer
\* records the version that was written (did_save).
PersistResolveWith(i, outcomes) ==
    /\ ~panicked
    /\ save_pc[i] = "persisting"
    /\ persist_result[i] = "pending"
    /\ \E r \in outcomes :
        /\ persist_result' = [persist_result EXCEPT ![i] = r]
        /\ saved_version' = IF r = "ok" THEN persist_version[i] ELSE saved_version
    /\ UNCHANGED <<navVars, diagVars, capVars, statusVars, is_singleton, history, version, save_pc, format_result,
                   save_log, persist_version, save_result, save_as_pc,
                   save_as_result, panicked>>

PersistResolve(i) == PersistResolveWith(i, {"ok", "err"})

(* --------------------------- Editor::save ----------------------------- *)

\* As Save, with an invocation made while another is in flight answered at
\* once, without a formatting request or a persistence call of its own.
Save_Deduplicated(i) ==
    /\ ~panicked
    /\ save_pc[i] = "idle"
    /\ \A j \in SaveIds : j < i => save_pc[j] # "idle"
    /\ IF \E j \in SaveIds : save_pc[j] \in {"formatting", "persisting"}
       THEN /\ save_pc' = [save_pc EXCEPT ![i] = "done"]
            /\ save_result' = [save_result EXCEPT ![i] = "ok"]
            /\ UNCHANGED <<format_result, save_log>>
       ELSE /\ save_pc' = [save_pc EXCEPT ![i] = "formatting"]
            /\ format_result' = [format_result EXCEPT ![i] = Pending]
            /\ save_log' = [save_log EXCEPT ![i] = <<"format">>]
            /\ UNCHANGED save_result
    /\ UNCHANGED <<navVars, diagVars, capVars, statusVars, is_singleton, history, version, saved_version,
                   persist_version, persist_result,
                   save_as_pc, save_as_result, panicked>>

\* lines 111-114: the synchronous part; the formatting request is issued and
\* the rest of the body is spawned as a task.  Invocations are numbered in
\* the order they are made.
Save(i) ==
    /\ ~panicked
    /\ save_pc[i] = "idle"
    /\ \A j \in SaveIds : j < i => save_pc[j] # "idle"
    /\ save_pc' = [save_pc EXCEPT ![i] = "formatting"]
    /\ format_result' = [format_result EXCEPT ![i] = Pending]
    /\ save_log' = [save_log EXCEPT ![i] = <<"format">>]
    /\ UNCHANGED <<navVars, diagVars, capVars, statusVars, is_singleton, history, version, saved_version,
                   persist_version, persist_result, save_result,
                   save_as_pc, save_as_result, panicked>>

\* MultiBuffer::push_transaction: the transaction becomes the newest entry of
\* the buffer's history; nothing is re-executed, the text is left alone.
push_transaction(h, i) == Append(h, [kind |-> "pushed", by |-> i])

FormatReady_NoAwait(i) == TRUE

\* line 115: transaction.await suspends the task until the request resolves
FormatReady(i) == format_result[i] # Pending

ShouldPush_IgnoresSingleton(transaction) == transaction.some

ShouldPush_OnlyWithEdits(transaction) ==
    transaction.some /\ transaction.docs > 0 /\ ~is_singleton

\* lines 121-122: if let Some(transaction) ... if !buffer.is_singleton()
ShouldPush(transaction) == transaction.some /\ ~is_singleton

\* As SaveResume, with the formatting error propagated (transaction.await?).
SaveResume_PropagatesFormat(i) ==
    /\ ~panicked
    /\ save_pc[i] = "formatting"
    /\ format_result[i] # Pending
    /\ format_result[i].status # "ok"
    /\ save_result' = [save_result EXCEPT ![i] = "err"]
    /\ save_pc' = [save_pc EXCEPT ![i] = "done"]
    /\ UNCHANGED <<navVars, diagVars, capVars, statusVars, is_singleton, history, version, saved_version,
                   format_result, save_log, persist_version, persist_result,
                   save_as_pc, save_as_result, panicked>>

\* As SaveResume, with the re-scroll requested only for a formatted buffer.
SaveResume_ScrollWhenFormatted(i) ==
    /\ ~panicked
    /\ save_pc[i] = "formatting"
    /\ format_result[i] # Pending
    /\ LET transaction == log_err(format_result[i])
           push == transaction.some /\ ~is_singleton
       IN  /\ history' = IF push
                         THEN push_transaction(history, i)
                         ELSE history
           /\ save_log' = [save_log EXCEPT ![i] =
                  @ \o (IF transaction.some THEN <<"autoscroll">> ELSE <<>>)
                    \o (IF push THEN <<"push_transaction">> ELSE <<>>)
                    \o <<"save">>]
    /\ persist_version' = [persist_version EXCEPT ![i] = version]
    /\ persist_result' = [persist_result EXCEPT ![i] = "pending"]
    /\ save_pc' = [save_pc EXCEPT ![i] = "persisting"]
    /\ UNCHANGED <<navVars, diagVars, capVars, statusVars, is_singleton, version, saved_version, format_result,
                   save_result, save_as_pc, save_as_result, panicked>>

\* As SaveResume, with a suspension between the merge and buffer.save.
SaveResume_SuspendsAfterMerge(i) ==
    /\ ~panicked
    /\ save_pc[i] = "formatting"
    /\ format_result[i] # Pending
    /\ LET transaction == log_err(format_result[i])
           push == transaction.some /\ ~is_singleton
       IN  /\ history' = IF push
                         THEN push_transaction(history, i)
                         ELSE history
           /\ save_log' = [save_log EXCEPT ![i] =
                  @ \o <<"autoscroll">>
                    \o (IF push THEN <<"push_transaction">> ELSE <<>>)]
    /\ save_pc' = [save_pc EXCEPT ![i] = "merged"]
    /\ UNCHANGED <<persist_version, persist_result>>
    /\ UNCHANGED <<navVars, diagVars, capVars, statusVars, is_singleton, version, saved_version, format_result,
                   save_result, save_as_pc, save_as_result, panicked>>

\* As SaveResume, persisting the content read before the suspension.
SaveResume_CachedContent(i) ==
    /\ ~panicked
    /\ save_pc[i] = "formatting"
    /\ format_result[i] # Pending
    /\ LET transaction == log_err(format_result[i])
           push == transaction.some /\ ~is_singleton
       IN  /\ history' = IF push
                         THEN push_transaction(history, i)
                         ELSE history
           /\ save_log' = [save_log EXCEPT ![i] =
                  @ \o <<"autoscroll">>
                    \o (IF push THEN <<"push_transaction">> ELSE <<>>)
                    \o <<"save">>]
    /\ persist_version' = [persist_version EXCEPT ![i] = saved_version]
    /\ persist_result' = [persist_result EXCEPT ![i] = "pending"]
    /\ save_pc' = [save_pc EXCEPT ![i] = "persisting"]
    /\ UNCHANGED <<navVars, diagVars, capVars, statusVars, is_singleton, version, saved_version, format_result,
                   save_result, save_as_pc, save_as_result, panicked>>

\* lines 115-128: the task resumes after the formatting suspension and runs,
\* without suspending, up to the start of persistence.
SaveResume(i) ==
    /\ ~panicked
    /\ save_pc[i] = "formatting"
    /\ FormatReady(i)
    /\ LET transaction == log_err(format_result[i])
           push == ShouldPush(transaction)
       IN  /\ history' = IF push
                         THEN push_transaction(history, i)
                         ELSE history
           /\ save_log' = [save_log EXCEPT ![i] =
                  @ \o <<"autoscroll">>
                    \o (IF push THEN <<"push_transaction">> ELSE <<>>)
                    \o <<"save">>]
    /\ persist_version' = [persist_version EXCEPT ![i] = version]
    /\ persist_result' = [persist_result EXCEPT ![i] = "pending"]
    /\ save_pc' = [save_pc EXCEPT ![i] = "persisting"]
    /\ UNCHANGED <<navVars, diagVars, capVars, statusVars, is_singleton, version, saved_version, format_result,
                   save_result, save_as_pc, save_as_result, panicked>>

SaveOutcome_PropagatesFormat(i) ==
    IF format_result[i].status = "ok" THEN persist_result[i] ELSE "err"

\* lines 129-130: .await? propagates the persistence error, else Ok(())
SaveOutcome(i) == persist_result[i]

SaveReturn(i) ==
    /\ ~panicked
    /\ save_pc[i] = "persisting"
    /\ persist_result[i] # "pending"
    /\ save_result' = [save_result EXCEPT ![i] = SaveOutcome(i)]
    /\ save_pc' = [save_pc EXCEPT ![i] = "done"]
    /\ UNCHANGED <<navVars, diagVars, capVars, statusVars, is_singleton, history, version, saved_version,
                   format_result, save_log, persist_version, persist_result,
                   save_as_pc, save_as_result, panicked>>

(* -------------------------- Editor::save_as --------------------------- *)

SaveAsPanics_Never == FALSE

\* lines 144-149: as_singleton() is None for an excerpt list, and expect panics
SaveAsPanics == ~is_singleton

\* lines 138-154: a panic unwinds before project.save_buffer_as is reached
SaveAs ==
    /\ ~panicked
    /\ save_as_pc = "idle"
    /\ IF SaveAsPanics
       THEN /\ panicked' = TRUE
            /\ save_as_pc' = "panicked"
       ELSE /\ save_as_pc' = "saving"
            /\ UNCHANGED panicked
    /\ UNCHANGED <<navVars, diagVars, capVars, statusVars, is_singleton, history, version, saved_version, save_pc,
                   format_result, save_log, persist_version, persist_result,
                   save_result, save_as_result>>

\* The Task returned by project.save_buffer_as resolves and is the result.
SaveAsResolve ==
    /\ ~panicked
    /\ save_as_pc = "saving"
    /\ \E r \in {"ok", "err"} :
        /\ save_as_result' = r
        /\ saved_version' = IF r = "ok" THEN version ELSE saved_version
    /\ save_as_pc' = "done"
    /\ UNCHANGED <<navVars, diagVars, capVars, statusVars, is_singleton, history, version, save_pc, format_result,
                   save_log, persist_version, persist_result, save_result,
                   panicked>>

(* ------------------ what the item reports it can do ------------------- *)

\* Option<&File>: the file backing the first document of the buffer
NoFile == [some |-> FALSE, worktree_id |-> 0, path |-> 0]
WorktreeFile(w, p) == [some |-> TRUE, worktree_id |-> w, path |-> p]

Files == {NoFile} \cup {WorktreeFile(w, p) : w \in {1, 2}, p \in {1, 2}}

\* MultiBuffer::file: the file of the one document of a singleton, and None
\* for an excerpt list
buffer_file == IF is_singleton THEN file ELSE NoFile

\* Option<ProjectPath>
NoProjectPath == [some |-> FALSE, worktree_id |-> 0, path |-> 0]
ProjectPath(w, p) == [some |-> TRUE, worktree_id |-> w, path |-> p]

\* lines 71-76
project_path ==
    IF buffer_file.some
    THEN ProjectPath(buffer_file.worktree_id, buffer_file.path)
    ELSE NoProjectPath

can_save_SingletonOnly == project_path.some

\* lines 102-104
can_save == ~is_singleton \/ project_path.some

can_save_as_UnlessConflict == is_singleton /\ ~has_conflict

\* lines 134-136
can_save_as == is_singleton

\* what a caller holds after asking: nothing yet, or the boolean returned
NotAsked == [asked |-> FALSE, value |-> FALSE]
Answer(b) == [asked |-> TRUE, value |-> b]

\* The workspace asks the item whether it can be saved.
CanSave ==
    /\ can_save_result' = Answer(can_save)
    /\ UNCHANGED <<file, has_conflict, can_save_as_result>>
    /\ UNCHANGED <<saveVars, navVars, diagVars, statusVars>>

\* The workspace asks the item whether it can be saved under another path.
CanSaveAs ==
    /\ can_save_as_result' = Answer(can_save_as)
    /\ UNCHANGED <<file, has_conflict, can_save_result>>
    /\ UNCHANGED <<saveVars, navVars, diagVars, statusVars>>

\* The file is rewritten on disk by another program while the buffer holds
\* unsaved edits: the buffer is in conflict with its file.
FileChangedOnDisk ==
    /\ file.some
    /\ is_dirty
    /\ ~has_conflict
    /\ has_conflict' = TRUE
    /\ UNCHANGED <<file, can_save_result, can_save_as_result>>
    /\ UNCHANGED <<saveVars, navVars, diagVars, statusVars>>

CapQuiet ==
    /\ file = NoFile
    /\ has_conflict = FALSE
    /\ can_save_result = NotAsked
    /\ can_save_as_result = NotAsked

(* ---------------------------- navigation ----------------------------- *)

\* An Anchor names a place between two characters of one lineage of the
\* content (an excerpt of the buffer); edits of that lineage move it with the
\* characters around it.  Once the lineage is gone from the buffer the anchor
\* is stale, and the place it named means nothing any more.
Anchor(p) == [live |-> TRUE, pos |-> p]
StaleAnchor == [live |-> FALSE, pos |-> 0]

\* payloads handed to navigate: a NavigationData, or a value of another type
NavigationData(a, off) == [kind |-> "nav", anchor |-> a, offset |-> off]
OtherData == [kind |-> "other", anchor |-> StaleAnchor, offset |-> 0]
NoData == [kind |-> "none", anchor |-> StaleAnchor, offset |-> 0]

RECURSIVE Width(_)
\* length in bytes of a sequence of characters
Width(chars) ==
    IF chars = <<>> THEN 0 ELSE Head(chars) + Width(Tail(chars))

\* snapshot.len()
TextLen == Width(text)

\* offsets at which a character starts, and the end of the text
Boundaries == {Width(SubSeq(text, 1, k)) : k \in 0..Len(text)}

\* snapshot.can_resolve(anchor): the anchor's lineage is in the snapshot
can_resolve(a) == a.live

\* anchor.to_offset(snapshot): the bytes before the anchor's place
to_offset(a) == Width(SubSeq(text, 1, a.pos - 1))

\* snapshot.anchor_before/after(offset), for an offset that is a boundary
anchor_at(off) ==
    Anchor(CHOOSE p \in 1..(Len(text) + 1) :
               Width(SubSeq(text, 1, p - 1)) = off)

Max(S) == CHOOSE x \in S : \A y \in S : y <= x
Min(S) == CHOOSE x \in S : \A y \in S : x <= y

\* snapshot.clip_offset(offset, bias): the offset itself when it is a
\* boundary of the text, else the nearest boundary on the side of the bias
clip_offset(off, bias) ==
    IF off >= TextLen THEN TextLen
    ELSE IF bias = "Left"
         THEN Max({b \in Boundaries : b <= off})
         ELSE Min({b \in Boundaries : b >= off})

resolve_FallbackOnly(data) == clip_offset(data.offset, "Left")

resolve_ClipRight(data) ==
    IF can_resolve(data.anchor)
    THEN to_offset(data.anchor)
    ELSE clip_offset(data.offset, "Right")

\* lines 53-57: the offset navigate moves the cursor to
resolve(data) ==
    IF can_resolve(data.anchor)
    THEN to_offset(data.anchor)
    ELSE clip_offset(data.offset, "Left")

\* selection.head()
head == selection.head

\* Editor::push_to_nav_history(position, ..): with a navigation history
\* attached, an entry holding the anchor and its present offset is pushed;
\* the history keeps its newest MaxNav entries.
push_to_nav_history(attached, position) ==
    IF attached
    THEN LET pushed == Append(nav_history,
                              NavigationData(position, to_offset(position)))
         IN  IF Len(pushed) > MaxNav THEN Tail(pushed) ELSE pushed
    ELSE nav_history

\* Editor::select_ranges([tail..head], ..): the selection is replaced; when
\* the cursor moves, the place it leaves is pushed to the navigation history.
select_ranges(attached, tail_off, head_off) ==
    /\ selection' = [tail |-> anchor_at(tail_off), head |-> anchor_at(head_off)]
    /\ nav_history' = IF to_offset(head) # head_off
                      THEN push_to_nav_history(attached, head)
                      ELSE nav_history

\* As Navigate, with the history handle left in place while selecting.
Navigate_KeepsHandle(data) ==
    /\ IF data.kind = "nav"
       THEN LET offset == resolve(data)
            IN  select_ranges(nav_attached, offset, offset)
       ELSE UNCHANGED <<selection, nav_history>>
    /\ navigated' = data
    /\ UNCHANGED <<text, nav_attached>>
    /\ UNCHANGED <<saveVars, diagVars, capVars, statusVars>>

\* lines 50-64
Navigate(data) ==
    /\ IF data.kind = "nav"
       THEN LET offset == resolve(data)
            \* lines 60-62: the history handle is taken out while selecting
            IN  select_ranges(FALSE, offset, offset)
       ELSE UNCHANGED <<selection, nav_history>>
    /\ navigated' = data
    /\ UNCHANGED <<text, nav_attached>>
    /\ UNCHANGED <<saveVars, diagVars, capVars, statusVars>>

\* lines 85-87
SetNavHistory ==
    /\ ~nav_attached
    /\ nav_attached' = TRUE
    /\ navigated' = NoData
    /\ UNCHANGED <<text, selection, nav_history>>
    /\ UNCHANGED <<saveVars, diagVars, capVars, statusVars>>

\* As Deactivated, recording the tail of the newest selection.
Deactivated_RecordsTail ==
    /\ nav_history' = push_to_nav_history(nav_attached, selection.tail)
    /\ navigated' = NoData
    /\ UNCHANGED <<text, selection, nav_attached>>
    /\ UNCHANGED <<saveVars, diagVars, capVars, statusVars>>

\* lines 89-92
Deactivated ==
    /\ nav_history' = push_to_nav_history(nav_attached, head)
    /\ navigated' = NoData
    /\ UNCHANGED <<text, selection, nav_attached>>
    /\ UNCHANGED <<saveVars, diagVars, capVars, statusVars>>

\* The user moves the cursor (tail and head together) or extends the
\* selection (the head alone).
UserSelect(tail_off, head_off) ==
    /\ select_ranges(nav_attached, tail_off, head_off)
    /\ navigated' = NoData
    /\ UNCHANGED <<text, nav_attached>>
    /\ UNCHANGED <<saveVars, diagVars, capVars, statusVars>>

\* an anchor of the current lineage after a character is inserted at place p
AfterInsert(a, p) ==
    IF a.live /\ a.pos >= p THEN Anchor(a.pos + 1) ELSE a

\* an anchor of the current lineage after the character at place p is deleted
AfterDelete(a, p) ==
    IF a.live /\ a.pos > p THEN Anchor(a.pos - 1) ELSE a

AfterEdit(a, kind, p) ==
    IF kind = "insert" THEN AfterInsert(a, p) ELSE AfterDelete(a, p)

\* every anchor held by the editor and by the navigation history follows
MoveAnchors(kind, p) ==
    /\ selection' = [tail |-> AfterEdit(selection.tail, kind, p),
                     head |-> AfterEdit(selection.head, kind, p)]
    /\ nav_history' = [k \in 1..Len(nav_history) |->
                          [nav_history[k] EXCEPT
                              !.anchor = AfterEdit(@, kind, p)]]

\* A character of w bytes is inserted at place p, by the user or another task.
InsertChar(p, w) ==
    /\ Len(text) < MaxLen
    /\ text' = SubSeq(text, 1, p - 1) \o <<w>> \o SubSeq(text, p, Len(text))
    /\ MoveAnchors("insert", p)
    /\ navigated' = NoData
    /\ UNCHANGED nav_attached
    /\ UNCHANGED <<saveVars, diagVars, capVars, statusVars>>

\* The character at place p is deleted.
DeleteChar(p) ==
    /\ text' = SubSeq(text, 1, p - 1) \o SubSeq(text, p + 1, Len(text))
    /\ MoveAnchors("delete", p)
    /\ navigated' = NoData
    /\ UNCHANGED nav_attached
    /\ UNCHANGED <<saveVars, diagVars, capVars, statusVars>>

\* The content is replaced by one of another lineage (the excerpts of a
\* composite buffer are rebuilt, a file is reloaded): anchors recorded before
\* no longer resolve, and the selection is re-made at the start.
ReplaceBuffer ==
    /\ text' = <<>>
    /\ selection' = [tail |-> Anchor(1), head |-> Anchor(1)]
    /\ nav_history' = [k \in 1..Len(nav_history) |->
                          [nav_history[k] EXCEPT !.anchor = StaleAnchor]]
    /\ navigated' = NoData
    /\ UNCHANGED nav_attached
    /\ UNCHANGED <<saveVars, diagVars, capVars, statusVars>>

NavQuiet ==
    /\ text = <<>>
    /\ selection = [tail |-> Anchor(1), head |-> Anchor(1)]
    /\ nav_history = <<>>
    /\ nav_attached = FALSE
    /\ navigated = NoData

(* ------------------------- DiagnosticMessage -------------------------- *)

\* DiagnosticSeverity: a more severe diagnostic has the lower rank
Error == 1
Warning == 2
Severities == {Error, Warning}

\* a DiagnosticEntry: a range of the text and the Diagnostic attached to it
Entry(s, e, sev, msg) ==
    [start |-> s, end |-> e,
     diagnostic |-> [some |-> TRUE, severity |-> sev, message |-> msg]]

\* Option<Diagnostic>::None
NoDiagnostic == [some |-> FALSE, severity |-> 0, message |-> 0]

\* Range::is_empty
is_empty(entry) == ~(entry.start < entry.end)

\* Range::len
range_len(entry) == IF entry.start < entry.end THEN entry.end - entry.start ELSE 0

\* diagnostics_in_range(cursor..cursor, false): the entries whose range
\* touches the cursor, ends included, in the buffer's iteration order
diagnostics_in_range(cursor) ==
    SelectSeq(diagnostics, LAMBDA en : en.start <= cursor /\ cursor <= en.end)

KeepEntry_All(entry) == TRUE

\* line 268: the filter
KeepEntry(entry) == ~is_empty(entry)

EntryKey_WidthFirst(entry) == <<range_len(entry), entry.diagnostic.severity>>

\* line 269: the key
EntryKey(entry) == <<entry.diagnostic.severity, range_len(entry)>>

\* Ord of a pair: a < b
KeyLess(a, b) == a[1] < b[1] \/ (a[1] = b[1] /\ a[2] < b[2])

RECURSIVE MinFrom(_, _)
\* Iterator::min_by_key on a non-empty iterator: the fold keeps the element
\* it holds unless the next one's key is strictly less
MinFrom(best, rest) ==
    IF rest = <<>> THEN best
    ELSE MinFrom(IF KeyLess(EntryKey(Head(rest)), EntryKey(best))
                 THEN Head(rest) ELSE best,
                 Tail(rest))

\* lines 265-270
new_diagnostic(cursor) ==
    LET kept == SelectSeq(diagnostics_in_range(cursor), KeepEntry)
    IN  IF kept = <<>> THEN NoDiagnostic
        ELSE MinFrom(Head(kept), Tail(kept)).diagnostic

update_AlwaysNotifies(cursor) ==
    [diagnostic |-> new_diagnostic(cursor), notify |-> TRUE]

\* lines 259-275 for an editor whose cursor is at the given offset: the
\* diagnostic held afterwards, and whether cx.notify() was called
update(cursor) ==
    LET new == new_diagnostic(cursor)
    IN  IF new # diagnostic
        THEN [diagnostic |-> new, notify |-> TRUE]
        ELSE [diagnostic |-> diagnostic, notify |-> FALSE]

\* lines 259-275, run as the observer of the active editor
Update ==
    /\ LET r == update(cursor_position)
       IN  diagnostic' = r.diagnostic /\ notified' = r.notify
    /\ diag_fresh' = TRUE
    /\ UNCHANGED <<diagnostics, cursor_position>>
    /\ UNCHANGED <<saveVars, navVars, capVars, statusVars>>

\* The cursor of the observed editor moves.
MoveCursor(p) ==
    /\ p # cursor_position
    /\ cursor_position' = p
    /\ diag_fresh' = FALSE
    /\ UNCHANGED <<diagnostics, diagnostic, notified>>
    /\ UNCHANGED <<saveVars, navVars, capVars, statusVars>>

\* The language server withdraws the k-th diagnostic.
RemoveDiagnostic(k) ==
    /\ diagnostics' = SubSeq(diagnostics, 1, k - 1)
                         \o SubSeq(diagnostics, k + 1, Len(diagnostics))
    /\ diag_fresh' = FALSE
    /\ UNCHANGED <<cursor_position, diagnostic, notified>>
    /\ UNCHANGED <<saveVars, navVars, capVars, statusVars>>

\* the documented example: two errors and a warning around offset 13
ExampleDiagnostics ==
    <<Entry(10, 20, Error, 1), Entry(12, 14, Error, 2), Entry(11, 13, Warning, 3)>>

\* lists of up to max entries over 0..MaxPos; an entry's message tells it
\* from the others
DiagnosticLists(max) ==
    LET Shapes == {sh \in [start : 0..MaxPos, end : 0..MaxPos, sev : Severities] :
                       sh.start <= sh.end}
    IN  UNION {{[k \in 1..n |-> Entry(f[k].start, f[k].end, f[k].sev, k)] :
                    f \in [1..n -> Shapes]} : n \in 0..max}

CursorPositions == 0..MaxPos \cup {13}

DiagQuiet ==
    /\ diagnostics = <<>>
    /\ cursor_position = 0
    /\ diagnostic = NoDiagnostic
    /\ notified = FALSE
    /\ diag_fresh = FALSE

(* -------------------- the status-bar aggregators ---------------------- *)

EditorIds == 1..MaxEditors

\* what the workspace passes as the active pane item: nothing, a view that
\* is not an editor, or one of the editor views (all showing the buffer)
NoItem == [kind |-> "none", id |-> 0]
OtherItem == [kind |-> "other", id |-> 0]
EditorItem(e) == [kind |-> "editor", id |-> e]
PaneItems == {NoItem, OtherItem} \cup {EditorItem(e) : e \in EditorIds}

\* lines 234 and 307: active_pane_item.and_then(|item| item.downcast::<Editor>())
downcast(item) ==
    IF item.kind = "editor"
    THEN [some |-> TRUE, editor |-> item.id]
    ELSE [some |-> FALSE, editor |-> 0]

\* a Selection<usize>
Selection(i, s, e, r) == [id |-> i, start |-> s, end |-> e, reversed |-> r]

\* Selection::head
selection_head(sel) == IF sel.reversed THEN sel.start ELSE sel.end

\* offset.to_point(&buffer); the text shown in the status model is one line
to_point(off) == [row |-> 0, column |-> off]

\* Option<Point>
NoPosition == [some |-> FALSE, row |-> 0, column |-> 0]
SomePosition(pt) == [some |-> TRUE, row |-> pt.row, column |-> pt.column]

RECURSIVE SelectedCount(_)
\* lines 188-191: the sum of the lengths of the selections
SelectedCount(sels) ==
    IF sels = <<>> THEN 0
    ELSE (Head(sels).end - Head(sels).start) + SelectedCount(Tail(sels))

RECURSIVE LastSelection(_, _)
\* lines 192-197: a selection replaces the one held when its id is greater
LastSelection(last, rest) ==
    IF rest = <<>> THEN last
    ELSE LastSelection(IF Head(rest).id > last.id THEN Head(rest) ELSE last,
                       Tail(rest))

\* editor.newest_selection_with_snapshot(..) of an editor whose selections
\* are sels: the selection made last
newest_selection(sels) == LastSelection(Head(sels), Tail(sels))

\* lines 184-202: the fields of CursorPosition after update_position on an
\* editor whose selections are sels
update_position(sels) ==
    [selected_count |-> SelectedCount(sels),
     position |-> IF sels = <<>> THEN NoPosition
                  ELSE SomePosition(to_point(selection_head(
                           LastSelection(Head(sels), Tail(sels)))))]

Observe_KeepsOld(held, e) == held \cup {e}

\* lines 235 and 308: _observe_active_editor = Some(cx.observe(&editor, ..));
\* the Subscription held before is dropped by the assignment, which ends it
Observe(held, e) == {e}

\* lines 228-244
CursorPositionSetActivePaneItem(item) ==
    /\ LET editor == downcast(item)
       IN  IF editor.some
           THEN /\ cp_observe_active_editor' =
                       Observe(cp_observe_active_editor, editor.editor)
                /\ cp_position' =
                       update_position(selections[editor.editor]).position
                /\ cp_selected_count' =
                       update_position(selections[editor.editor]).selected_count
           ELSE /\ cp_position' = NoPosition
                /\ cp_observe_active_editor' = {}
                /\ UNCHANGED cp_selected_count
    /\ cp_active_pane_item' = item
    /\ status_call' = {"CursorPosition::set_active_pane_item"}
    /\ UNCHANGED <<selections, dm_observe_active_editor, dm_active_pane_item>>
    /\ UNCHANGED <<saveVars, navVars, diagVars, capVars>>

\* lines 301-316
DiagnosticMessageSetActivePaneItem(item) ==
    /\ LET editor == downcast(item)
       IN  IF editor.some
           THEN /\ dm_observe_active_editor' =
                       Observe(dm_observe_active_editor, editor.editor)
                /\ diagnostic' =
                       update(selection_head(newest_selection(
                                  selections[editor.editor]))).diagnostic
           ELSE /\ diagnostic' = NoDiagnostic
                /\ dm_observe_active_editor' = {}
    \* line 314: cx.notify(), whatever update did
    /\ notified' = TRUE
    /\ dm_active_pane_item' = item
    /\ status_call' = {"DiagnosticMessage::set_active_pane_item"}
    /\ UNCHANGED <<selections, cp_position, cp_selected_count,
                   cp_observe_active_editor, cp_active_pane_item>>
    /\ UNCHANGED <<diagnostics, cursor_position, diag_fresh>>
    /\ UNCHANGED <<saveVars, navVars, capVars>>

\* The selections of editor view e change and the editor notifies; the
\* callbacks of the live subscriptions to that editor run before anything
\* else does.
EditorSelect(e, sels) ==
    /\ sels # selections[e]
    /\ selections' = [selections EXCEPT ![e] = sels]
    /\ IF e \in cp_observe_active_editor
       THEN /\ cp_position' = update_position(sels).position
            /\ cp_selected_count' = update_position(sels).selected_count
       ELSE UNCHANGED <<cp_position, cp_selected_count>>
    /\ IF e \in dm_observe_active_editor
       THEN LET r == update(selection_head(newest_selection(sels)))
            IN  diagnostic' = r.diagnostic /\ notified' = r.notify
       ELSE UNCHANGED <<diagnostic, notified>>
    /\ status_call' =
           {h \in {"update_position"} : e \in cp_observe_active_editor}
           \cup {h \in {"update"} : e \in dm_observe_active_editor}
    /\ UNCHANGED <<cp_observe_active_editor, dm_observe_active_editor,
                   cp_active_pane_item, dm_active_pane_item>>
    /\ UNCHANGED <<diagnostics, cursor_position, diag_fresh>>
    /\ UNCHANGED <<saveVars, navVars, capVars>>

\* what an editor's selections can be: one caret, one selection of the
\* first character made in either direction, or two carets made in either
\* order
SelectionLists ==
    {<<Selection(1, a, a, FALSE)>> : a \in 0..MaxPos}
    \cup {<<Selection(1, 0, 1, r)>> : r \in BOOLEAN}
    \cup {<<Selection(i, 0, 0, FALSE), Selection(3 - i, MaxPos, MaxPos, FALSE)>> :
              i \in {1, 2}}

\* the diagnostics of the buffer the editor views show
StatusDiagnostics == <<Entry(0, 1, Error, 1), Entry(1, MaxPos, Warning, 2)>>

StatusQuiet ==
    /\ selections = [e \in EditorIds |-> <<Selection(1, 0, 0, FALSE)>>]
    /\ cp_position = NoPosition
    /\ cp_selected_count = 0
    /\ cp_observe_active_editor = {}
    /\ dm_observe_active_editor = {}
    /\ cp_active_pane_item = NoItem
    /\ dm_active_pane_item = NoItem
    /\ status_call = {}

(* --------------------------- specification ---------------------------- *)

SaveInit ==
    /\ is_singleton \in BOOLEAN
    /\ history = <<>>
    /\ version = 0
    /\ saved_version = 0
    /\ save_pc = [i \in SaveIds |-> "idle"]
    /\ format_result = [i \in SaveIds |-> Pending]
    /\ save_log = [i \in SaveIds |-> <<>>]
    /\ persist_version = [i \in SaveIds |-> 0]
    /\ persist_result = [i \in SaveIds |-> "none"]
    /\ save_result = [i \in SaveIds |-> "none"]
    /\ save_as_pc = "idle"
    /\ save_as_result = "none"
    /\ panicked = FALSE

Init == SaveInit /\ NavQuiet /\ DiagQuiet /\ CapQuiet /\ StatusQuiet

\* The save coordinator: overlapping save invocations and user edits.
Next ==
    \/ Edit
    \/ \E i \in SaveIds : Save(i)
    \/ \E i \in SaveIds : FormatResolve(i)
    \/ \E i \in SaveIds : SaveResume(i)
    \/ \E i \in SaveIds : PersistResolve(i)
    \/ \E i \in SaveIds : SaveReturn(i)

Spec == Init /\ [][Next]_vars

\* save_as next to one save invocation and user edits.
SaveAsNext ==
    \/ Edit
    \/ Save(1)
    \/ FormatResolve(1)
    \/ SaveResume(1)
    \/ PersistResolve(1)
    \/ SaveReturn(1)
    \/ SaveAs
    \/ SaveAsResolve

SaveAsSpec == Init /\ [][SaveAsNext]_vars

\* The save coordinator with a formatting service that fails on every
\* request and a persistence step that succeeds.  The scheduler runs every
\* task that can run, and every pending request is eventually answered.
FormatFails(i) == FormatResolveWith(i, {Failed, Cancelled})

PersistSucceeds(i) == PersistResolveWith(i, {"ok"})

FairNext ==
    \/ Edit
    \/ \E i \in SaveIds : Save(i)
    \/ \E i \in SaveIds : FormatFails(i)
    \/ \E i \in SaveIds : SaveResume(i)
    \/ \E i \in SaveIds : PersistSucceeds(i)
    \/ \E i \in SaveIds : SaveReturn(i)

Fairness ==
    \A i \in SaveIds :
        /\ WF_vars(FormatFails(i))
        /\ WF_vars(SaveResume(i))
        /\ WF_vars(PersistSucceeds(i))
        /\ WF_vars(SaveReturn(i))

FairSpec == Init /\ [][FairNext]_vars /\ Fairness

\* Navigation: markers are recorded, the text changes, markers are applied.
NavInit ==
    SaveInit /\ is_singleton /\ NavQuiet /\ DiagQuiet /\ CapQuiet /\ StatusQuiet

NavNext ==
    \/ SetNavHistory
    \/ Deactivated
    \/ \E k \in 1..Len(nav_history) : Navigate(nav_history[k])
    \/ Navigate(OtherData)
    \/ \E h \in Boundaries : UserSelect(h, h)
    \/ \E h \in Boundaries : UserSelect(to_offset(selection.tail), h)
    \/ \E p \in 1..(Len(text) + 1), w \in {1, 2} : InsertChar(p, w)
    \/ \E p \in 1..Len(text) : DeleteChar(p)
    \/ ReplaceBuffer

NavSpec == NavInit /\ [][NavNext]_vars

\* The diagnostic picker over bounded lists of diagnostics.
DiagInit ==
    /\ SaveInit /\ is_singleton /\ NavQuiet /\ CapQuiet /\ StatusQuiet
    /\ diagnostics \in DiagnosticLists(MaxDiags) \cup {ExampleDiagnostics}
    /\ cursor_position \in CursorPositions
    /\ diagnostic = NoDiagnostic
    /\ notified = FALSE
    /\ diag_fresh = FALSE

DiagNext ==
    \/ Update
    \/ \E p \in CursorPositions : MoveCursor(p)
    \/ \E k \in 1..Len(diagnostics) : RemoveDiagnostic(k)

DiagSpec == DiagInit /\ [][DiagNext]_vars

\* The capabilities the item reports, over every kind of buffer: the
\* buffer is edited, its file changes on disk, and the workspace asks.
CapInit ==
    /\ SaveInit /\ NavQuiet /\ DiagQuiet /\ StatusQuiet
    /\ file \in Files
    /\ has_conflict = FALSE
    /\ can_save_result = NotAsked
    /\ can_save_as_result = NotAsked

CapNext ==
    \/ Edit
    \/ FileChangedOnDisk
    \/ CanSave
    \/ CanSaveAs

CapSpec == CapInit /\ [][CapNext]_vars

\* The status bar: the active pane item changes, the editors' selections
\* change.
StatusInit ==
    /\ SaveInit /\ is_singleton /\ NavQuiet /\ CapQuiet /\ StatusQuiet
    /\ diagnostics = StatusDiagnostics
    /\ cursor_position = 0
    /\ diagnostic = NoDiagnostic
    /\ notified = FALSE
    /\ diag_fresh = FALSE

StatusNext ==
    \/ \E item \in PaneItems : CursorPositionSetActivePaneItem(item)
    \/ \E item \in PaneItems : DiagnosticMessageSetActivePaneItem(item)
    \/ \E e \in EditorIds, sels \in SelectionLists : EditorSelect(e, sels)

StatusSpec == StatusInit /\ [][StatusNext]_vars

(* ------------------------------ claims -------------------------------- *)

\* position of the first occurrence of event e in log, 0 when absent
IndexOf(log, e) ==
    IF \E k \in 1..Len(log) : log[k] = e
    THEN CHOOSE k \in 1..Len(log) :
             log[k] = e /\ \A m \in 1..(k - 1) : log[m] # e
    ELSE 0

Count(log, e) == Cardinality({k \in 1..Len(log) : log[k] = e})

\* number of entries of the buffer's history pushed by invocation i
Pushed(i) == Count(history, [kind |-> "pushed", by |-> i])

\* invocation i has passed the formatting suspension
Resumed(i) == save_pc[i] \in {"persisting", "done"}

\* C1: within one save invocation, persistence (buffer.save) starts only
\* after the formatting request has resolved, with success or failure, and a
\* push of the formatting transaction comes before the start of persistence.
C1_PersistAfterFormat ==
    \A i \in SaveIds :
        IndexOf(save_log[i], "save") > 0 =>
            /\ format_result[i] # Pending
            /\ IndexOf(save_log[i], "format") \in 1..(IndexOf(save_log[i], "save") - 1)
            /\ \A k \in 1..Len(save_log[i]) :
                   save_log[i][k] = "push_transaction" =>
                       k < IndexOf(save_log[i], "save")

C1_Witness ==
    \E i \in SaveIds :
        /\ save_pc[i] = "persisting"
        /\ save_log[i] = <<"format", "autoscroll", "push_transaction", "save">>

\* C2: whatever the formatting request resolved to, a save that has passed
\* the formatting suspension has invoked persistence exactly once, a resolved
\* formatting request always lets the save go on to persistence, and the
\* result of save is the result of persistence and nothing else.
C2_ResultIsPersistResult ==
    \A i \in SaveIds :
        /\ Resumed(i) => Count(save_log[i], "save") = 1
        /\ ~Resumed(i) => Count(save_log[i], "save") = 0 /\ save_result[i] = "none"
        /\ (save_pc[i] = "formatting" /\ format_result[i] # Pending)
               => ENABLED SaveResume(i)
        /\ save_pc[i] = "done" =>
               /\ save_result[i] \in {"ok", "err"}
               /\ save_result[i] = persist_result[i]
        /\ save_result[i] # "none" => save_pc[i] = "done"

C2_Witness ==
    \E i, j \in SaveIds :
        /\ save_pc[i] = "done" /\ save_pc[j] = "done"
        /\ format_result[i] = Failed /\ save_result[i] = "ok"
        /\ format_result[j] = Cancelled /\ save_result[j] = "ok"

\* the step of invocation i from the formatting suspension to persistence
MergeStep(i) == save_pc[i] = "formatting" /\ save_pc'[i] = "persisting"

\* C3: the merge step of a save of a composite buffer whose formatting
\* succeeded appends exactly one entry, the formatting transaction, to the
\* buffer's history, and does so before persistence is invoked; the merge
\* step of a save of a singleton buffer leaves the history as it is.
C3_MergeGrowsHistoryByOne ==
    [][\A i \in SaveIds :
        MergeStep(i) =>
            /\ (~is_singleton /\ format_result[i].status = "ok") =>
                   /\ Len(history') = Len(history) + 1
                   /\ SubSeq(history', 1, Len(history)) = history
                   /\ history'[Len(history')] = [kind |-> "pushed", by |-> i]
                   /\ IndexOf(save_log'[i], "push_transaction") \in
                          1..(IndexOf(save_log'[i], "save") - 1)
            /\ is_singleton => history' = history]_vars

C3_Witness ==
    \E i \in SaveIds :
        /\ ~is_singleton
        /\ Resumed(i)
        /\ format_result[i].status = "ok"
        /\ Len(history) > 0
        /\ history[Len(history)] = [kind |-> "pushed", by |-> i]

\* C4 as claimed: the push happens exactly when formatting succeeded, it
\* produced edits, and the buffer is not a singleton.
C4_PushOnlyWithEdits ==
    \A i \in SaveIds :
        Resumed(i) =>
            (Pushed(i) > 0 <=>
                (/\ format_result[i].status = "ok"
                 /\ format_result[i].docs > 0
                 /\ ~is_singleton))

\* C4 (amended): save pushes the formatting transaction onto the buffer's
\* history, once, exactly when formatting succeeded and the buffer is not a
\* singleton, whether or not the formatting produced edits; otherwise save
\* pushes nothing.
C4_PushIffFormattedComposite ==
    \A i \in SaveIds :
        Pushed(i) =
            IF Resumed(i) /\ format_result[i].status = "ok" /\ ~is_singleton
            THEN 1 ELSE 0

C4_Witness ==
    \E i \in SaveIds :
        /\ Resumed(i)
        /\ ~is_singleton
        /\ format_result[i] = Formatted(0)
        /\ Pushed(i) = 1

\* C7: save_as on a composite buffer panics before anything is started: it
\* never reaches project.save_buffer_as, never has a result, and the program
\* takes no step after the panic.
C7_SaveAsCompositePanics ==
    /\ ~is_singleton =>
           /\ save_as_pc \in {"idle", "panicked"}
           /\ save_as_result = "none"
    /\ panicked <=> save_as_pc = "panicked"
    /\ panicked => ~is_singleton /\ ~ENABLED SaveAsNext

C7_Witness ==
    /\ panicked
    /\ save_as_pc = "panicked"
    /\ save_pc[1] = "persisting"
    /\ persist_result[1] = "pending"

C5_NavigateToAnchor ==
    (navigated.kind = "nav" /\ can_resolve(navigated.anchor)) =>
        /\ selection.tail = selection.head
        /\ head.live
        /\ to_offset(head) = to_offset(navigated.anchor)

C5_Witness ==
    /\ navigated.kind = "nav"
    /\ can_resolve(navigated.anchor)
    /\ navigated.offset > TextLen
    /\ to_offset(navigated.anchor) < TextLen
    /\ to_offset(head) = to_offset(navigated.anchor)

\* C6: navigate can be applied to every recorded marker, and after navigate
\* with a marker whose anchor does not resolve the selection is empty and
\* sits at the fallback offset clipped to the left: a boundary in [0, L], the
\* fallback offset itself when that is a boundary of the text, L when the
\* fallback offset is beyond the text, and otherwise the nearest boundary
\* to the left of the fallback offset.
C6_NavigateClipsFallback ==
    /\ \A k \in 1..Len(nav_history) : ENABLED Navigate(nav_history[k])
    /\ (navigated.kind = "nav" /\ ~can_resolve(navigated.anchor)) =>
           LET r == to_offset(head)
               f == navigated.offset
           IN  /\ selection.tail = selection.head
               /\ head.live
               /\ r \in 0..TextLen
               /\ r \in Boundaries
               /\ f \in Boundaries => r = f
               /\ f > TextLen => r = TextLen
               /\ f <= TextLen =>
                      /\ r <= f
                      /\ \A b \in Boundaries : b <= f => b <= r

C6_Witness ==
    /\ navigated.kind = "nav"
    /\ ~can_resolve(navigated.anchor)
    /\ navigated.offset < TextLen
    /\ navigated.offset \notin Boundaries
    /\ to_offset(head) = navigated.offset - 1

C6_WitnessShrunk ==
    /\ navigated.kind = "nav"
    /\ ~can_resolve(navigated.anchor)
    /\ navigated.offset > TextLen
    /\ TextLen > 0
    /\ to_offset(head) = TextLen

\* entries that touch the cursor and have a non-empty range
Candidates ==
    {k \in 1..Len(diagnostics) :
        /\ diagnostics[k].start <= cursor_position
        /\ cursor_position <= diagnostics[k].end
        /\ diagnostics[k].start < diagnostics[k].end}

\* C9: the picked diagnostic is that of a candidate no other candidate beats,
\* neither by a lower severity rank nor, at the same severity, by a shorter
\* range; on the example, with the cursor at 13, it is Error[12,14].
C9_PickIsMinBySeverityThenWidth ==
    diag_fresh =>
        /\ Candidates # {} =>
               \E k \in Candidates :
                   /\ diagnostic = diagnostics[k].diagnostic
                   /\ \A c \in Candidates :
                          LET dk == diagnostics[k]
                              dc == diagnostics[c]
                          IN  \/ dk.diagnostic.severity < dc.diagnostic.severity
                              \/ /\ dk.diagnostic.severity = dc.diagnostic.severity
                                 /\ dk.end - dk.start <= dc.end - dc.start
        /\ (diagnostics = ExampleDiagnostics /\ cursor_position = 13) =>
               diagnostic = Entry(12, 14, Error, 2).diagnostic

C9_Witness ==
    /\ diag_fresh
    /\ diagnostics = ExampleDiagnostics
    /\ cursor_position = 13
    /\ diagnostic = Entry(12, 14, Error, 2).diagnostic

\* a wide Error is picked over a narrower Warning
C9_WitnessSeverityFirst ==
    /\ diag_fresh
    /\ \E k, c \in Candidates :
           /\ diagnostic = diagnostics[k].diagnostic
           /\ diagnostics[k].diagnostic.severity = Error
           /\ diagnostics[c].diagnostic.severity = Warning
           /\ diagnostics[c].end - diagnostics[c].start
                  < diagnostics[k].end - diagnostics[k].start

\* C10: the picked diagnostic never belongs to an entry with an empty range,
\* and nothing is picked when every entry touching the cursor is empty.
C10_ZeroWidthNeverPicked ==
    diag_fresh =>
        /\ diagnostic.some =>
               \A k \in 1..Len(diagnostics) :
                   diagnostics[k].diagnostic = diagnostic =>
                       diagnostics[k].start < diagnostics[k].end
        /\ Candidates = {} => diagnostic = NoDiagnostic

C10_Witness ==
    /\ diag_fresh
    /\ diagnostic = NoDiagnostic
    /\ Candidates = {}
    /\ \E k \in 1..Len(diagnostics) :
           /\ diagnostics[k].start = cursor_position
           /\ diagnostics[k].end = cursor_position

\* C11: can_save_as is true exactly for a singleton buffer, whatever the
\* dirty state, the conflict state and the file of the buffer are; every
\* answer a caller holds is the singleton flag of the buffer.
C11_CanSaveAsIffSingleton ==
    /\ can_save_as <=> is_singleton
    /\ can_save_as_result.asked => (can_save_as_result.value <=> is_singleton)

\* a dirty singleton in conflict with its file can still be saved as
C11_Witness ==
    /\ can_save_as_result = Answer(TRUE)
    /\ is_dirty
    /\ has_conflict
    /\ file.some

\* a clean composite buffer without a file cannot
C11_WitnessComposite ==
    /\ can_save_as_result = Answer(FALSE)
    /\ ~is_dirty
    /\ ~has_conflict
    /\ ~file.some

\* C12: can_save is true exactly when the buffer is composite, or is a
\* singleton whose file gives a project path; it is false exactly for a
\* singleton without a file, whatever the dirty and conflict state.
C12_CanSaveIffCompositeOrPath ==
    /\ can_save <=> (~is_singleton \/ file.some)
    /\ ~can_save <=> (is_singleton /\ ~file.some)
    /\ (is_singleton /\ file.some) =>
           project_path = ProjectPath(file.worktree_id, file.path)
    /\ can_save_result.asked =>
           (can_save_result.value <=> (~is_singleton \/ file.some))

\* a composite buffer, dirty, none of whose documents has a file
C12_Witness ==
    /\ can_save_result = Answer(TRUE)
    /\ ~is_singleton
    /\ ~file.some
    /\ is_dirty

\* a singleton without a file
C12_WitnessNoPath ==
    /\ can_save_result = Answer(FALSE)
    /\ is_singleton
    /\ ~file.some

\* a singleton in conflict with its file
C12_WitnessConflict ==
    /\ can_save_result = Answer(TRUE)
    /\ is_singleton
    /\ has_conflict

\* C13: a save that has passed the formatting suspension has requested the
\* re-scroll exactly once, whether formatting succeeded, failed or was
\* cancelled and whether persistence succeeds, fails or is still pending;
\* the request comes before persistence is invoked, and save returns an
\* error only when persistence failed.
C13_AutoscrollWhateverTheOutcome ==
    \A i \in SaveIds :
        /\ Resumed(i) =>
               /\ Count(save_log[i], "autoscroll") = 1
               /\ IndexOf(save_log[i], "autoscroll") < IndexOf(save_log[i], "save")
        /\ ~Resumed(i) => Count(save_log[i], "autoscroll") = 0
        /\ save_result[i] = "err" => persist_result[i] = "err"
        /\ (save_pc[i] = "done" /\ persist_result[i] = "ok") => save_result[i] = "ok"

\* formatting failed, persistence failed: the re-scroll was requested
C13_Witness ==
    \E i \in SaveIds :
        /\ save_pc[i] = "done"
        /\ format_result[i] = Failed
        /\ save_result[i] = "err"
        /\ Count(save_log[i], "autoscroll") = 1

\* formatting was cancelled, persistence succeeded
C13_WitnessSaved ==
    \E i \in SaveIds :
        /\ save_pc[i] = "done"
        /\ format_result[i] = Cancelled
        /\ save_result[i] = "ok"
        /\ Count(save_log[i], "autoscroll") = 1

\* the persistence calls made so far, over all invocations
PersistenceCalls ==
    UNION {{<<i, k>> : k \in {m \in 1..Len(save_log[i]) : save_log[i][m] = "save"}} :
               i \in SaveIds}

\* C15: every save invocation issues one formatting request of its own, and
\* once its formatting has resolved and it has resumed, has made one merge
\* decision and one persistence call of its own, however the invocations
\* overlap: the persistence calls number the resumed invocations, and on a
\* composite buffer the pushed transactions number the resumed invocations
\* whose formatting succeeded.
C15_SavesNotDeduplicated ==
    /\ \A i \in SaveIds :
           /\ save_pc[i] # "idle" => Count(save_log[i], "format") = 1
           /\ Resumed(i) =>
                  /\ Count(save_log[i], "save") = 1
                  /\ persist_result[i] # "none"
                  /\ Pushed(i) = IF format_result[i].status = "ok" /\ ~is_singleton
                                 THEN 1 ELSE 0
    /\ Cardinality(PersistenceCalls) = Cardinality({i \in SaveIds : Resumed(i)})
    /\ ~is_singleton =>
           Cardinality({k \in 1..Len(history) : history[k].kind = "pushed"})
               = Cardinality({i \in SaveIds :
                                  Resumed(i) /\ format_result[i].status = "ok"})

\* every invocation is in flight at once on a composite buffer, each with
\* its own successful formatting, its own push and its own persistence call
C15_Witness ==
    /\ ~is_singleton
    /\ \A i \in SaveIds :
           /\ save_pc[i] = "persisting"
           /\ persist_result[i] = "pending"
           /\ format_result[i].status = "ok"
           /\ Pushed(i) = 1
    /\ Cardinality(PersistenceCalls) = MaxSaves

\* C16: no state shows an invocation with its re-scroll requested or its
\* formatting transaction pushed and its persistence not yet started: after
\* the formatting suspension the invocation's calls are the re-scroll, the
\* push if any, and buffer.save, made in one step.
C16_MergeAndPersistInOneStep ==
    \A i \in SaveIds :
        /\ (Pushed(i) > 0 \/ Count(save_log[i], "autoscroll") > 0
                \/ Count(save_log[i], "push_transaction") > 0) =>
               /\ Resumed(i)
               /\ Count(save_log[i], "save") = 1
               /\ persist_result[i] # "none"
        /\ save_log[i] \in {<<>>, <<"format">>,
                            <<"format", "autoscroll", "save">>,
                            <<"format", "autoscroll", "push_transaction", "save">>}
        /\ save_pc[i] \in {"idle", "formatting", "persisting", "done"}

\* an invocation has merged and started persistence while another, and the
\* user, can still run and look at the buffer
C16_Witness ==
    \E i, j \in SaveIds :
        /\ Pushed(i) = 1
        /\ save_pc[i] = "persisting"
        /\ persist_result[i] = "pending"
        /\ save_pc[j] = "formatting"
        /\ version < MaxVersion

\* C17: when a save resumes after the formatting suspension, the content it
\* persists is the content of the buffer at that moment, and the merge is
\* decided by the buffer's singleton flag at that moment: nothing read at
\* the invocation is used.
C17_ReadsBufferAtResume ==
    [][\A i \in SaveIds :
        MergeStep(i) =>
            /\ persist_version'[i] = version
            /\ persist_version'[i] = version'
            /\ (history' # history) <=>
                   (~is_singleton /\ format_result[i].status = "ok")]_vars

\* the first invocation persists an edit the formatter of the second made
\* while the first was waiting for its own formatting
C17_Witness ==
    /\ is_singleton
    /\ history = <<[kind |-> "format", by |-> 2]>>
    /\ Resumed(1)
    /\ format_result[1].docs = 0
    /\ persist_version[1] = 1
    /\ saved_version = 0

\* the pick DiagnosticMessage::update computes in this step for editor e
RecomputedFor(e) ==
    new_diagnostic(selection_head(newest_selection(selections'[e])))

\* update runs in this step as the observer of editor e, which has changed
ObserverUpdateStep(e) ==
    /\ "update" \in status_call'
    /\ selections'[e] # selections[e]

\* set_active_pane_item of DiagnosticMessage runs in this step with editor e
ActivationStep(e) ==
    /\ status_call' = {"DiagnosticMessage::set_active_pane_item"}
    /\ dm_active_pane_item' = EditorItem(e)

\* C14 as claimed: whenever the aggregator recomputes the pick, in the
\* observer callback or in set_active_pane_item, and the pick equals the
\* diagnostic held, the diagnostic held is left as it is and no notification
\* is emitted; a notification is emitted only when the pick differs.
C14_NoNotifyWhenSame ==
    [][\A e \in EditorIds :
        (ObserverUpdateStep(e) \/ ActivationStep(e)) =>
            /\ RecomputedFor(e) = diagnostic =>
                   (diagnostic' = diagnostic /\ ~notified')
            /\ notified' => RecomputedFor(e) # diagnostic]_vars

\* C14 (amended): when update runs as the observer callback and the pick
\* equals the diagnostic held, the diagnostic held is left as it is and no
\* notification is emitted, and update notifies exactly when the pick
\* differs; set_active_pane_item recomputes the pick through update and then
\* always emits a notification, whether or not the pick differs.
C14_UpdateNotifiesOnlyOnChange ==
    [][\A e \in EditorIds :
        /\ ObserverUpdateStep(e) =>
               /\ diagnostic' = RecomputedFor(e)
               /\ RecomputedFor(e) = diagnostic =>
                      (diagnostic' = diagnostic /\ ~notified')
               /\ notified' <=> RecomputedFor(e) # diagnostic
        /\ ActivationStep(e) =>
               /\ diagnostic' = RecomputedFor(e)
               /\ notified']_vars

\* the observer callback has just found the diagnostic it already held
C14_Witness ==
    /\ "update" \in status_call
    /\ ~notified
    /\ diagnostic.some
    /\ \E e \in dm_observe_active_editor :
           diagnostic = new_diagnostic(selection_head(newest_selection(selections[e])))

\* the editor an aggregator should be observing, given the item it was told
\* about last
ActiveEditors(item) == IF item.kind = "editor" THEN {item.id} ELSE {}

\* C20: each aggregator holds at most one live subscription, to the editor
\* it was last told is the active pane item, and what it holds is computed
\* from that editor as it is now; once it is told the active item is not an
\* editor, or that there is none, it holds no subscription and no position
\* or diagnostic, whatever the editors do afterwards.
C20_OneSubscriptionToActiveEditor ==
    /\ Cardinality(cp_observe_active_editor) <= 1
    /\ Cardinality(dm_observe_active_editor) <= 1
    /\ cp_observe_active_editor = ActiveEditors(cp_active_pane_item)
    /\ dm_observe_active_editor = ActiveEditors(dm_active_pane_item)
    /\ \A e \in cp_observe_active_editor :
           /\ cp_position = update_position(selections[e]).position
           /\ cp_position.some
           /\ cp_selected_count = update_position(selections[e]).selected_count
    /\ \A e \in dm_observe_active_editor :
           diagnostic = new_diagnostic(selection_head(newest_selection(selections[e])))
    /\ cp_observe_active_editor = {} => cp_position = NoPosition
    /\ dm_observe_active_editor = {} => diagnostic = NoDiagnostic

\* both aggregators observed an editor, were then told of an item that is
\* not an editor, and an editor has changed since without any callback
C20_Witness ==
    /\ cp_active_pane_item = OtherItem
    /\ dm_active_pane_item \in {OtherItem, NoItem}
    /\ notified
    /\ cp_selected_count > 0
    /\ cp_position = NoPosition
    /\ diagnostic = NoDiagnostic
    /\ status_call = {}
    /\ \E e \in EditorIds : selection_head(newest_selection(selections[e])) = MaxPos

\* the aggregators follow different editors, each the one it was told last
C20_WitnessSwitched ==
    /\ cp_active_pane_item = EditorItem(1)
    /\ dm_active_pane_item = EditorItem(2)
    /\ cp_position = SomePosition(to_point(1))
    /\ diagnostic = Entry(1, MaxPos, Warning, 2).diagnostic
    /\ status_call = {"update"}

\* the newest entry of the navigation history
NewestEntry(h) == h[Len(h)]

\* C18: a marker whose anchor does not resolve is applied by navigate at its
\* fallback offset clipped to the left; the head of the newest selection
\* always resolves in the buffer as it is; and each deactivated of an editor
\* with a navigation history records one marker whose anchor is that head
\* and whose fallback offset is the offset of the cursor at that moment, so
\* the marker it records resolves, through its anchor, to the cursor.
C18_DeactivatedRecordsFreshMarker ==
    /\ []((navigated.kind = "nav" /\ ~can_resolve(navigated.anchor)) =>
              to_offset(head) = clip_offset(navigated.offset, "Left"))
    /\ [](can_resolve(head) /\ to_offset(head) \in Boundaries)
    /\ [][(Deactivated /\ nav_attached) =>
              LET marker == NewestEntry(nav_history')
              IN  /\ Len(nav_history') > 0
                  /\ marker.kind = "nav"
                  /\ marker.anchor = head
                  /\ can_resolve(marker.anchor)
                  /\ marker.offset = to_offset(head)
                  /\ resolve(marker) = to_offset(head)
                  /\ selection' = selection]_vars

\* the newest marker was recorded at the head of a selection that is not
\* empty, away from the start of a text with a two-byte character
C18_Witness ==
    /\ nav_attached
    /\ Len(nav_history) > 0
    /\ NewestEntry(nav_history).anchor = head
    /\ NewestEntry(nav_history).offset = to_offset(head)
    /\ can_resolve(NewestEntry(nav_history).anchor)
    /\ selection.tail # head
    /\ to_offset(head) > 1
    /\ navigated = NoData

=============================================================================
